---- MODULE Spec2Model ----
(***************************************************************************)
(* A model of the wall-maze engine of maze-solver (src/wall_maze/mod.rs):  *)
(* bounded positions, interior walls, the best-first search of solve(),    *)
(* and the mutation protocol of WallMaze.                                  *)
(*                                                                         *)
(* Rust values are modelled as follows.                                    *)
(*   InteriorPosition<WIDTH,HEIGHT>   [x |-> .., y |-> ..]                 *)
(*   Wall and InteriorWall            [x |-> .., y |-> .., orientation]    *)
(*   Vec<T>                           a sequence                           *)
(*   HashMap<K,V>                     a function whose DOMAIN is the keys  *)
(*   Result<T,String>                 Ok(v) or Err(kind); the kind is the  *)
(*                                    fixed text of the format string      *)
(*   a panic (unwrap of Err/None)     Panic                                *)
(* A &mut self method is an operator from the maze and its arguments to    *)
(* [maze |-> the maze afterwards, ret |-> the returned Result].            *)
(***************************************************************************)
EXTENDS Integers, Sequences, FiniteSets

VARIABLES
    WIDTH,      \* const generic WIDTH of the maze under study
    HEIGHT,     \* const generic HEIGHT of the maze under study
    maze,       \* the WallMaze value, or NoMaze before construction
    op,         \* name of the last operation called
    arg,        \* its argument
    ret,        \* what it returned
    search,     \* the local variables of a solve() in progress, or NoSearch
    steps       \* how many steps the loop of that solve() has taken

vars == <<WIDTH, HEIGHT, maze, op, arg, ret, search, steps>>

(***************************************************************************)
(* Bounds of the model.                                                    *)
(***************************************************************************)
MaxWidth == 3
MaxHeight == 3
MaxCells == 9
MaxFromWalls == 2
MaxSolveWalls == 3

Grids == {g \in (1..MaxWidth) \X (1..MaxHeight) : g[1] * g[2] <= MaxCells}

(***************************************************************************)
(* Result<T, String>                                                       *)
(***************************************************************************)
Ok(v) == [ok |-> TRUE, val |-> v]
Err(e) == [ok |-> FALSE, err |-> e]
Panic == [ok |-> FALSE, err |-> "panic"]
Unit == "()"

E_X_OUT_OF_BOUNDS == "x coordinate is out of bounds for width"
E_Y_OUT_OF_BOUNDS == "y coordinate is out of bounds for height"
E_X_ON_EDGE == "x coordinate is out of bounds for width (the wall would be on the edge of the maze)"
E_Y_ON_EDGE == "y coordinate is out of bounds for height (the wall would be on the edge of the maze)"
E_NOT_ADJACENT == "Positions are not adjacent"
E_SAME_POSITION == "Positions are the same"
E_SAME_START_END == "Start position cannot be the same as end position"
E_NOT_SOLVABLE == "Maze is not solvable with the given walls"
E_NO_PATH == "No path found from start to end"
E_WALL_NOT_FOUND == "Wall not found in the maze"
E_WALL_EXISTS == "Wall already exists in the maze"
E_WALL_UNSOLVABLE == "Wall would make the maze unsolvable"
E_START_UNSOLVABLE == "New start position would make the maze unsolvable"
E_END_UNSOLVABLE == "New end position would make the maze unsolvable"
E_CANNOT_MOVE_UP == "Cannot move up from position"
E_CANNOT_MOVE_DOWN == "Cannot move down from position. This would leave the bottom of the maze of height"
E_CANNOT_MOVE_LEFT == "Cannot move left from position"
E_CANNOT_MOVE_RIGHT == "Cannot move right from position. This would leave the right side of the maze of width"

(***************************************************************************)
(* Orientation, Wall, InteriorWall                                         *)
(***************************************************************************)
Horizontal == "Horizontal"
Vertical == "Vertical"
Orientation == {Horizontal, Vertical}

Wall_new(x, y, orientation) == [x |-> x, y |-> y, orientation |-> orientation]

\* Mutant: the exterior edge is not checked.
InteriorWall_new_without_edge_check(x, y, orientation) ==
    IF x >= WIDTH THEN Err(E_X_OUT_OF_BOUNDS)
    ELSE IF y >= HEIGHT THEN Err(E_Y_OUT_OF_BOUNDS)
    ELSE Ok(Wall_new(x, y, orientation))

\* Mutant: the bounds are compared with > instead of >=.
InteriorWall_new_inclusive_bounds(x, y, orientation) ==
    IF x > WIDTH THEN Err(E_X_OUT_OF_BOUNDS)
    ELSE IF y > HEIGHT THEN Err(E_Y_OUT_OF_BOUNDS)
    ELSE IF x = WIDTH - 1 /\ orientation = Vertical THEN Err(E_X_ON_EDGE)
    ELSE IF y = HEIGHT - 1 /\ orientation = Horizontal THEN Err(E_Y_ON_EDGE)
    ELSE Ok(Wall_new(x, y, orientation))

InteriorWall_new(x, y, orientation) ==
    IF x >= WIDTH THEN Err(E_X_OUT_OF_BOUNDS)
    ELSE IF y >= HEIGHT THEN Err(E_Y_OUT_OF_BOUNDS)
    ELSE IF x = WIDTH - 1 /\ orientation = Vertical THEN Err(E_X_ON_EDGE)
    ELSE IF y = HEIGHT - 1 /\ orientation = Horizontal THEN Err(E_Y_ON_EDGE)
    ELSE Ok(Wall_new(x, y, orientation))

InteriorWall_from_wall(wall) == InteriorWall_new(wall.x, wall.y, wall.orientation)

\* Mutant: each orientation is checked against the other axis's edge.
InteriorWall_from_position_and_orientation_swapped_edges(pos, orientation) ==
    IF orientation = Horizontal
    THEN IF pos.x = WIDTH - 1 THEN Err(E_X_ON_EDGE)
         ELSE InteriorWall_new(pos.x, pos.y, orientation)
    ELSE IF pos.y = HEIGHT - 1 THEN Err(E_Y_ON_EDGE)
         ELSE InteriorWall_new(pos.x, pos.y, orientation)

InteriorWall_from_position_and_orientation(pos, orientation) ==
    IF orientation = Horizontal
    THEN IF pos.y = HEIGHT - 1 THEN Err(E_Y_ON_EDGE)
         ELSE InteriorWall_new(pos.x, pos.y, orientation)
    ELSE IF pos.x = WIDTH - 1 THEN Err(E_X_ON_EDGE)
         ELSE InteriorWall_new(pos.x, pos.y, orientation)

(***************************************************************************)
(* InteriorPosition                                                        *)
(***************************************************************************)
InteriorPosition_new(x, y) ==
    IF x >= WIDTH THEN Err(E_X_OUT_OF_BOUNDS)
    ELSE IF y >= HEIGHT THEN Err(E_Y_OUT_OF_BOUNDS)
    ELSE Ok([x |-> x, y |-> y])

\* The values of type InteriorPosition<WIDTH, HEIGHT>.
InteriorPosition == {InteriorPosition_new(x, y).val : x \in 0..(WIDTH - 1), y \in 0..(HEIGHT - 1)}

\* The values of type InteriorWall<WIDTH, HEIGHT>.
InteriorWall ==
    {InteriorWall_new(x, y, o).val :
        <<x, y, o>> \in {t \in (0..(WIDTH - 1)) \X (0..(HEIGHT - 1)) \X Orientation :
                            InteriorWall_new(t[1], t[2], t[3]).ok}}

contains(vec, v) == \E i \in 1..Len(vec) : vec[i] = v

\* Mutant: the neighbours along y are pushed before those along x.
adjacent_positions_y_first(self) ==
    (IF self.y > 0 THEN <<InteriorPosition_new(self.x, self.y - 1).val>> ELSE <<>>)
    \o (IF self.y < HEIGHT - 1 THEN <<InteriorPosition_new(self.x, self.y + 1).val>> ELSE <<>>)
    \o (IF self.x > 0 THEN <<InteriorPosition_new(self.x - 1, self.y).val>> ELSE <<>>)
    \o (IF self.x < WIDTH - 1 THEN <<InteriorPosition_new(self.x + 1, self.y).val>> ELSE <<>>)

adjacent_positions(self) ==
    (IF self.x > 0 THEN <<InteriorPosition_new(self.x - 1, self.y).val>> ELSE <<>>)
    \o (IF self.x < WIDTH - 1 THEN <<InteriorPosition_new(self.x + 1, self.y).val>> ELSE <<>>)
    \o (IF self.y > 0 THEN <<InteriorPosition_new(self.x, self.y - 1).val>> ELSE <<>>)
    \o (IF self.y < HEIGHT - 1 THEN <<InteriorPosition_new(self.x, self.y + 1).val>> ELSE <<>>)

\* Mutant: other is subtracted from self without comparing them first.
min_distance_unordered(self, other) == (self.x - other.x) + (self.y - other.y)

min_distance(self, other) ==
    LET dx == IF self.x < other.x THEN other.x - self.x
              ELSE IF self.x > other.x THEN self.x - other.x
              ELSE 0
        dy == IF self.y < other.y THEN other.y - self.y
              ELSE IF self.y > other.y THEN self.y - other.y
              ELSE 0
    IN  dx + dy

adjacent_to(self, other) == contains(adjacent_positions(self), other)

\* Mutant: only the wall pushed last is looked at.
wall_present_last_only(proposed, m) ==
    IF ~proposed.ok THEN proposed
    ELSE IF m.walls # <<>> /\ m.walls[Len(m.walls)] = proposed.val THEN Ok(TRUE)
    ELSE Ok(FALSE)

\* `?` on the wall constructor propagates its error.
wall_present(proposed, m) ==
    IF ~proposed.ok THEN proposed
    ELSE IF contains(m.walls, proposed.val) THEN Ok(TRUE)
    ELSE Ok(FALSE)

\* Mutant: the orientations of the wall looked up are exchanged.
separated_by_wall_wrong_orientation(self, other, m) ==
    IF ~adjacent_to(self, other) THEN Err(E_NOT_ADJACENT)
    ELSE IF self.x < other.x
         THEN wall_present(InteriorWall_new(self.x, self.y, Horizontal), m)
    ELSE IF self.x > other.x
         THEN wall_present(InteriorWall_new(other.x, other.y, Horizontal), m)
    ELSE IF self.y < other.y
         THEN wall_present(InteriorWall_new(self.x, self.y, Vertical), m)
    ELSE IF self.y > other.y
         THEN wall_present(InteriorWall_new(other.x, other.y, Vertical), m)
    ELSE Err(E_SAME_POSITION)

\* Mutant: the wall is always looked up at self, also when other is the
\* cell of the smaller coordinate.
separated_by_wall_asymmetric(self, other, m) ==
    IF ~adjacent_to(self, other) THEN Err(E_NOT_ADJACENT)
    ELSE IF self.x < other.x
         THEN wall_present(InteriorWall_from_position_and_orientation(self, Vertical), m)
    ELSE IF self.x > other.x
         THEN wall_present(InteriorWall_from_position_and_orientation(self, Vertical), m)
    ELSE IF self.y < other.y
         THEN wall_present(InteriorWall_from_position_and_orientation(self, Horizontal), m)
    ELSE IF self.y > other.y
         THEN wall_present(InteriorWall_from_position_and_orientation(self, Horizontal), m)
    ELSE Err(E_SAME_POSITION)

\* Mutant: the wall is looked up at the cell of the greater coordinate.
separated_by_wall_at_greater(self, other, m) ==
    IF ~adjacent_to(self, other) THEN Err(E_NOT_ADJACENT)
    ELSE IF self.x < other.x
         THEN wall_present(InteriorWall_new(other.x, other.y, Vertical), m)
    ELSE IF self.x > other.x
         THEN wall_present(InteriorWall_new(self.x, self.y, Vertical), m)
    ELSE IF self.y < other.y
         THEN wall_present(InteriorWall_new(other.x, other.y, Horizontal), m)
    ELSE IF self.y > other.y
         THEN wall_present(InteriorWall_new(self.x, self.y, Horizontal), m)
    ELSE Err(E_SAME_POSITION)

separated_by_wall(self, other, m) ==
    IF ~adjacent_to(self, other) THEN Err(E_NOT_ADJACENT)
    ELSE IF self.x < other.x
         THEN wall_present(InteriorWall_from_position_and_orientation(self, Vertical), m)
    ELSE IF self.x > other.x
         THEN wall_present(InteriorWall_from_position_and_orientation(other, Vertical), m)
    ELSE IF self.y < other.y
         THEN wall_present(InteriorWall_from_position_and_orientation(self, Horizontal), m)
    ELSE IF self.y > other.y
         THEN wall_present(InteriorWall_from_position_and_orientation(other, Horizontal), m)
    ELSE Err(E_SAME_POSITION)

(***************************************************************************)
(* Direction, shifted_by, move_by                                          *)
(***************************************************************************)
Up == "Up"
Down == "Down"
Left == "Left"
Right == "Right"
Direction == {Up, Down, Left, Right}

opposite(self) ==
    CASE self = Up -> Down
      [] self = Down -> Up
      [] self = Left -> Right
      [] self = Right -> Left

\* Mutant: a shift that would leave the grid returns the position itself.
shifted_by_clamped(self, direction) ==
    CASE direction = Up ->
            IF self.y = 0 THEN Ok(self) ELSE InteriorPosition_new(self.x, self.y - 1)
      [] direction = Down ->
            IF InteriorPosition_new(self.x, self.y + 1).ok
            THEN InteriorPosition_new(self.x, self.y + 1)
            ELSE Ok(self)
      [] direction = Left ->
            IF self.x = 0 THEN Ok(self) ELSE InteriorPosition_new(self.x - 1, self.y)
      [] direction = Right ->
            IF InteriorPosition_new(self.x + 1, self.y).ok
            THEN InteriorPosition_new(self.x + 1, self.y)
            ELSE Ok(self)

shifted_by(self, direction) ==
    CASE direction = Up ->
            IF self.y = 0 THEN Err(E_CANNOT_MOVE_UP)
            ELSE InteriorPosition_new(self.x, self.y - 1)
      [] direction = Down ->
            IF InteriorPosition_new(self.x, self.y + 1).ok
            THEN InteriorPosition_new(self.x, self.y + 1)
            ELSE Err(E_CANNOT_MOVE_DOWN)
      [] direction = Left ->
            IF self.x = 0 THEN Err(E_CANNOT_MOVE_LEFT)
            ELSE InteriorPosition_new(self.x - 1, self.y)
      [] direction = Right ->
            IF InteriorPosition_new(self.x + 1, self.y).ok
            THEN InteriorPosition_new(self.x + 1, self.y)
            ELSE Err(E_CANNOT_MOVE_RIGHT)

\* &mut self: [self |-> the position afterwards, ret |-> the returned Result].
move_by(self, direction) ==
    LET new_pos == shifted_by(self, direction)
    IN  IF ~new_pos.ok THEN [self |-> self, ret |-> new_pos]
        ELSE [self |-> new_pos.val, ret |-> Ok(Unit)]

(***************************************************************************)
(* WallMaze: construction and solve()                                      *)
(***************************************************************************)
NoMaze == [constructed |-> FALSE]

\* Mutant: equal start and end are accepted.
WallMaze_new_unchecked(start, end) ==
    Ok([start |-> start, end |-> end, walls |-> <<>>])

WallMaze_new(start, end) ==
    IF start = end THEN Err(E_SAME_START_END)
    ELSE Ok([start |-> start, end |-> end, walls |-> <<>>])

\* path_to.insert(k, v)
insert(map, k, v) == [p \in (DOMAIN map) \cup {k} |-> IF p = k THEN v ELSE map[p]]

\* The closure `value` of solve(): heuristic plus length of the recorded path.
value(pos, m, path_to) == min_distance(pos, m.end) + Len(path_to[pos])

\* Mutant: the comparator is not reversed, the order is ascending.
RECURSIVE sort_insert_ascending(_, _, _, _)
sort_insert_ascending(sorted, x, m, path_to) ==
    IF sorted = <<>> THEN <<x>>
    ELSE IF value(Head(sorted), m, path_to) <= value(x, m, path_to)
         THEN <<Head(sorted)>> \o sort_insert_ascending(Tail(sorted), x, m, path_to)
         ELSE <<x>> \o sorted

\* One insertion of a stable sort under the comparator
\* value(a).cmp(&value(b)).reverse(): x goes behind every element that does
\* not compare greater than it, i.e. behind every element of value >= its own.
RECURSIVE sort_insert(_, _, _, _)
sort_insert(sorted, x, m, path_to) ==
    IF sorted = <<>> THEN <<x>>
    ELSE IF value(Head(sorted), m, path_to) >= value(x, m, path_to)
         THEN <<Head(sorted)>> \o sort_insert(Tail(sorted), x, m, path_to)
         ELSE <<x>> \o sorted

\* unchecked.sort_by(..): slice::sort_by is stable, so the elements keep
\* their order among equals; the result is in descending order of value.
RECURSIVE sort_by(_, _, _)
sort_by(unchecked, m, path_to) ==
    IF unchecked = <<>> THEN <<>>
    ELSE sort_insert(sort_by(SubSeq(unchecked, 1, Len(unchecked) - 1), m, path_to),
                     unchecked[Len(unchecked)], m, path_to)

\* Mutant: a walled neighbour ends the for loop (break for continue).
RECURSIVE for_adjacents_break_on_wall(_, _, _, _, _)
for_adjacents_break_on_wall(m, next, adjacents, i, st) ==
    IF i > Len(adjacents) \/ st.panicked THEN st
    ELSE LET adj == adjacents[i]
             sep == separated_by_wall(adj, next, m)
         IN  IF adj \in DOMAIN st.path_to
             THEN for_adjacents_break_on_wall(m, next, adjacents, i + 1, st)
             ELSE IF ~sep.ok
             THEN [st EXCEPT !.panicked = TRUE]
             ELSE IF sep.val
             THEN st
             ELSE for_adjacents_break_on_wall(m, next, adjacents, i + 1,
                    [unchecked |-> Append(st.unchecked, adj),
                     path_to   |-> insert(st.path_to, adj, Append(st.path_to[next], adj)),
                     panicked  |-> FALSE])

\* The for loop over `adjacents`, from index i on. st is the search state
\* [unchecked, path_to, panicked].
RECURSIVE for_adjacents(_, _, _, _, _)
for_adjacents(m, next, adjacents, i, st) ==
    IF i > Len(adjacents) \/ st.panicked THEN st
    ELSE LET adj == adjacents[i]
             sep == separated_by_wall(adj, next, m)
         IN  IF adj \in DOMAIN st.path_to
             THEN for_adjacents(m, next, adjacents, i + 1, st)
             ELSE IF ~sep.ok
             THEN [st EXCEPT !.panicked = TRUE]
             ELSE IF sep.val
             THEN for_adjacents(m, next, adjacents, i + 1, st)
             ELSE for_adjacents(m, next, adjacents, i + 1,
                    [unchecked |-> Append(st.unchecked, adj),
                     path_to   |-> insert(st.path_to, adj, Append(st.path_to[next], adj)),
                     panicked  |-> FALSE])

\* Mutant: the chosen position is read but not popped.
solve_iteration_without_pop(m, st) ==
    LET sorted == sort_by(st.unchecked, m, st.path_to)
        next   == sorted[Len(sorted)]
    IN  for_adjacents(m, next, adjacent_positions(next), 1,
                      [st EXCEPT !.unchecked = sorted])

\* One pass through the body of `loop` after its two exits: sort the
\* frontier, pop its last element and expand it.
solve_iteration(m, st) ==
    LET sorted == sort_by(st.unchecked, m, st.path_to)
        next   == sorted[Len(sorted)]
        popped == SubSeq(sorted, 1, Len(sorted) - 1)
    IN  for_adjacents(m, next, adjacent_positions(next), 1,
                      [st EXCEPT !.unchecked = popped])

\* Mutant: the path recorded for start holds start twice.
solve_init_start_twice(m) ==
    [unchecked |-> <<m.start>>,
     path_to   |-> insert(<<>>, m.start, <<m.start, m.start>>),
     panicked  |-> FALSE]

solve_init(m) ==
    [unchecked |-> <<m.start>>,
     path_to   |-> insert(<<>>, m.start, <<m.start>>),
     panicked  |-> FALSE]

RECURSIVE solve_loop(_, _)
solve_loop(m, st) ==
    IF st.panicked THEN Panic
    ELSE IF m.end \in DOMAIN st.path_to THEN Ok(st.path_to[m.end])
    ELSE IF st.unchecked = <<>> THEN Err(E_NO_PATH)
    ELSE solve_loop(m, solve_iteration(m, st))

solve(m) == solve_loop(m, solve_init(m))

solveable(m) == solve(m).ok

\* Mutant: the walls are not validated.
WallMaze_from_walls_unvalidated(start, end, walls) ==
    Ok([start |-> start, end |-> end, walls |-> walls])

WallMaze_from_walls(start, end, walls) ==
    LET m == [start |-> start, end |-> end, walls |-> walls]
    IN  IF ~solveable(m) THEN Err(E_NOT_SOLVABLE) ELSE Ok(m)

(***************************************************************************)
(* WallMaze: the mutating operations                                       *)
(***************************************************************************)
\* Vec::remove(pos)
remove_at(vec, pos) == SubSeq(vec, 1, pos - 1) \o SubSeq(vec, pos + 1, Len(vec))

\* Vec::pop()
pop(vec) == SubSeq(vec, 1, Len(vec) - 1)

\* Mutant: the first wall of the collection is removed, not the one found.
remove_wall_removing_first(m, interior_wall) ==
    IF contains(m.walls, interior_wall)
    THEN [maze |-> [m EXCEPT !.walls = remove_at(m.walls, 1)], ret |-> Ok(Unit)]
    ELSE [maze |-> m, ret |-> Err(E_WALL_NOT_FOUND)]

remove_wall(m, interior_wall) ==
    IF contains(m.walls, interior_wall)
    THEN LET pos == CHOOSE i \in 1..Len(m.walls) :
                        /\ m.walls[i] = interior_wall
                        /\ \A j \in 1..(i - 1) : m.walls[j] # interior_wall
         IN  [maze |-> [m EXCEPT !.walls = remove_at(m.walls, pos)], ret |-> Ok(Unit)]
    ELSE [maze |-> m, ret |-> Err(E_WALL_NOT_FOUND)]

\* Mutant: the refused wall is not popped.
add_interior_wall_without_rollback(m, interior_wall) ==
    IF contains(m.walls, interior_wall)
    THEN [maze |-> m, ret |-> Err(E_WALL_EXISTS)]
    ELSE LET pushed == [m EXCEPT !.walls = Append(m.walls, interior_wall)]
         IN  IF solveable(pushed)
             THEN [maze |-> pushed, ret |-> Ok(Unit)]
             ELSE [maze |-> pushed, ret |-> Err(E_WALL_UNSOLVABLE)]

\* Mutant: solvability is checked before the wall is pushed.
add_interior_wall_validating_before_push(m, interior_wall) ==
    IF contains(m.walls, interior_wall)
    THEN [maze |-> m, ret |-> Err(E_WALL_EXISTS)]
    ELSE IF solveable(m)
         THEN [maze |-> [m EXCEPT !.walls = Append(m.walls, interior_wall)], ret |-> Ok(Unit)]
         ELSE [maze |-> m, ret |-> Err(E_WALL_UNSOLVABLE)]

add_interior_wall(m, interior_wall) ==
    IF contains(m.walls, interior_wall)
    THEN [maze |-> m, ret |-> Err(E_WALL_EXISTS)]
    ELSE LET pushed == [m EXCEPT !.walls = Append(m.walls, interior_wall)]
         IN  IF solveable(pushed)
             THEN [maze |-> pushed, ret |-> Ok(Unit)]
             ELSE [maze |-> [pushed EXCEPT !.walls = pop(pushed.walls)],
                   ret  |-> Err(E_WALL_UNSOLVABLE)]

add_wall(m, wall) ==
    LET interior_wall == InteriorWall_from_wall(wall)
    IN  IF ~interior_wall.ok
        THEN [maze |-> m, ret |-> interior_wall]
        ELSE add_interior_wall(m, interior_wall.val)

move_start(m, new_start) ==
    LET probe == WallMaze_new(new_start, m.start)
    IN  IF ~probe.ok THEN [maze |-> m, ret |-> Ok(Unit)]
        ELSE IF solveable(probe.val)
        THEN [maze |-> [m EXCEPT !.start = new_start], ret |-> Ok(Unit)]
        ELSE [maze |-> m, ret |-> Err(E_START_UNSOLVABLE)]

flip_start_end(m) == [m EXCEPT !.start = m.end, !.end = m.start]

\* Mutant: the new position is given to start, without the two flips.
move_end_moving_start(m, new_end) == move_start(m, new_end)

move_end(m, new_end) ==
    LET flipped == flip_start_end(m)
        moved   == move_start(flipped, new_end)
    IN  IF moved.ret.ok
        THEN [maze |-> flip_start_end(moved.maze), ret |-> Ok(Unit)]
        ELSE [maze |-> flip_start_end(moved.maze), ret |-> Err(E_END_UNSOLVABLE)]

(***************************************************************************)
(* The inputs the callers of the state machine draw from.                  *)
(***************************************************************************)
\* Three corners of the grid.
PosInputs ==
    {InteriorPosition_new(0, 0).val,
     InteriorPosition_new(WIDTH - 1, 0).val,
     InteriorPosition_new(WIDTH - 1, HEIGHT - 1).val}

\* Raw walls: three around the cells (0,0) and (0,1), one on each exterior
\* edge and one in the last column below the last row.
WallInputs ==
    {Wall_new(0, 0, Vertical), Wall_new(0, 1, Horizontal), Wall_new(0, 1, Vertical),
     Wall_new(WIDTH - 1, 0, Vertical), Wall_new(0, HEIGHT - 1, Horizontal),
     Wall_new(WIDTH - 1, HEIGHT, Vertical)}

InteriorWallInputs == WallInputs \cap InteriorWall

RECURSIVE SeqsUpTo(_, _)
SeqsUpTo(S, n) ==
    IF n = 0 THEN {<<>>}
    ELSE LET shorter == SeqsUpTo(S, n - 1)
         IN  shorter \cup {Append(s, e) : s \in shorter, e \in S}

(***************************************************************************)
(* The state machine: a caller constructs one maze and then calls its      *)
(* methods in any order.                                                   *)
(***************************************************************************)
NoArg == [none |-> TRUE]

\* No solve() is in progress.
NoSearch == [pc |-> "idle"]

Init ==
    /\ \E g \in Grids : WIDTH = g[1] /\ HEIGHT = g[2]
    /\ maze = NoMaze
    /\ op = "none"
    /\ arg = NoArg
    /\ ret = Ok(Unit)
    /\ search = NoSearch
    /\ steps = 0

\* Calls a constructor: the maze under study is the one it returns, if any.
Construct(name, a, r) ==
    /\ maze = NoMaze
    /\ maze' = IF r.ok THEN r.val ELSE maze
    /\ op' = name
    /\ arg' = a
    /\ ret' = IF r.ok THEN Ok(Unit) ELSE r
    /\ UNCHANGED <<WIDTH, HEIGHT, search, steps>>

\* Calls a &mut self method whose outcome is r = [maze, ret].
Mutate(name, a, r) ==
    /\ maze # NoMaze
    /\ maze' = r.maze
    /\ op' = name
    /\ arg' = a
    /\ ret' = r.ret
    /\ UNCHANGED <<WIDTH, HEIGHT, search, steps>>

New ==
    \E start \in PosInputs, end \in PosInputs :
        Construct("new", [start |-> start, end |-> end], WallMaze_new(start, end))

FromWalls ==
    \E start \in PosInputs, end \in PosInputs, walls \in SeqsUpTo(InteriorWallInputs, MaxFromWalls) :
        Construct("from_walls", [start |-> start, end |-> end, walls |-> walls],
                  WallMaze_from_walls(start, end, walls))

Solve ==
    /\ maze # NoMaze
    /\ op' = "solve"
    /\ arg' = NoArg
    /\ ret' = solve(maze)
    /\ UNCHANGED <<WIDTH, HEIGHT, maze, search, steps>>

AddWall == \E wall \in WallInputs : Mutate("add_wall", wall, add_wall(maze, wall))

AddInteriorWall ==
    \E w \in InteriorWallInputs : Mutate("add_interior_wall", w, add_interior_wall(maze, w))

RemoveWall == \E w \in InteriorWallInputs : Mutate("remove_wall", w, remove_wall(maze, w))

MoveStart == \E p \in PosInputs : Mutate("move_start", p, move_start(maze, p))

MoveEnd == \E p \in PosInputs : Mutate("move_end", p, move_end(maze, p))

FlipStartEnd ==
    Mutate("flip_start_end", NoArg, [maze |-> flip_start_end(maze), ret |-> Ok(Unit)])

Next ==
    \/ New
    \/ FromWalls
    \/ Solve
    \/ AddWall
    \/ AddInteriorWall
    \/ RemoveWall
    \/ MoveStart
    \/ MoveEnd
    \/ FlipStartEnd

Spec == Init /\ [][Next]_vars

(***************************************************************************)
(* solve() on its own: any start, end and walls, as from_walls hands them  *)
(* to solve() before it has validated anything.                            *)
(***************************************************************************)
RECURSIVE SetToSeq(_)
SetToSeq(S) ==
    IF S = {} THEN <<>>
    ELSE LET x == CHOOSE x \in S : TRUE
         IN  <<x>> \o SetToSeq(S \ {x})

SolveInputs ==
    {[start |-> s, end |-> e, walls |-> SetToSeq(ws)] :
        s \in InteriorPosition, e \in InteriorPosition,
        ws \in {W \in SUBSET InteriorWall : Cardinality(W) <= MaxSolveWalls}}

InitSolve ==
    /\ \E g \in Grids : WIDTH = g[1] /\ HEIGHT = g[2]
    /\ maze \in SolveInputs
    /\ op = "none"
    /\ arg = NoArg
    /\ ret = Ok(Unit)
    /\ search = NoSearch
    /\ steps = 0

NextSolve == Solve

SpecSolve == InitSolve /\ [][NextSolve]_vars

(***************************************************************************)
(* Reference notions, taken from the definition of a wall maze (a Vertical *)
(* wall at (x, y) lies between the cells (x, y) and (x+1, y), a Horizontal *)
(* one between (x, y) and (x, y+1)) and not from the search.               *)
(***************************************************************************)
HasWall(walls, x, y, o) == \E i \in 1..Len(walls) : walls[i] = Wall_new(x, y, o)

\* p and q share a side.
GridAdjacent(p, q) ==
    \/ p.y = q.y /\ (p.x = q.x + 1 \/ q.x = p.x + 1)
    \/ p.x = q.x /\ (p.y = q.y + 1 \/ q.y = p.y + 1)

\* p and q share a side with a wall of `walls` on it.
Walled(p, q, walls) ==
    \/ p.y = q.y /\ q.x = p.x + 1 /\ HasWall(walls, p.x, p.y, Vertical)
    \/ p.y = q.y /\ p.x = q.x + 1 /\ HasWall(walls, q.x, q.y, Vertical)
    \/ p.x = q.x /\ q.y = p.y + 1 /\ HasWall(walls, p.x, p.y, Horizontal)
    \/ p.x = q.x /\ p.y = q.y + 1 /\ HasWall(walls, q.x, q.y, Horizontal)

\* One step of a wall-respecting path.
Step(p, q, walls) == GridAdjacent(p, q) /\ ~Walled(p, q, walls)

RECURSIVE ReachableFrom(_, _)
ReachableFrom(S, walls) ==
    LET more == S \cup {q \in InteriorPosition : \E p \in S : Step(p, q, walls)}
    IN  IF more = S THEN S ELSE ReachableFrom(more, walls)

Connected(start, end, walls) == end \in ReachableFrom({start}, walls)

\* Least number of steps from `seen` (at distance d) to end; -1 if there is none.
RECURSIVE StepsFrom(_, _, _, _, _)
StepsFrom(frontier, seen, d, end, walls) ==
    IF end \in frontier THEN d
    ELSE IF frontier = {} THEN -1
    ELSE LET nxt == {q \in InteriorPosition \ seen : \E p \in frontier : Step(p, q, walls)}
         IN  StepsFrom(nxt, seen \cup nxt, d + 1, end, walls)

ShortestSteps(m) == StepsFrom({m.start}, {m.start}, 0, m.end, m.walls)

ValidPath(path, m) ==
    /\ Len(path) >= 1
    /\ path[1] = m.start
    /\ path[Len(path)] = m.end
    /\ \A i \in 1..Len(path) :
          /\ path[i].x \in 0..(WIDTH - 1)
          /\ path[i].y \in 0..(HEIGHT - 1)
    /\ \A i \in 1..(Len(path) - 1) : Step(path[i], path[i + 1], m.walls)

At(x, y) == [x |-> x, y |-> y]

(***************************************************************************)
(* Properties                                                              *)
(***************************************************************************)

\* Every maze value the machine reaches is held by a state whose last call
\* was solve(): Solve is enabled on every maze and leaves it unchanged. A
\* property of the maze value alone is evaluated in those states, once for
\* each value.
AtRest == maze # NoMaze /\ op = "solve"

\* C1: after any sequence of calls on a maze obtained from new or
\* from_walls, solve() returns a path, never the "No path found" error.
C1_SolvabilityInvariant == op = "solve" => ret.ok

\* C2: whenever solve() succeeds, the length of the returned sequence minus
\* one is the least number of steps of any wall-respecting path from start
\* to end.
C2_ShortestPath ==
    (op = "solve" /\ ret.ok) => Len(ret.val) - 1 = ShortestSteps(maze)

\* C3: every sequence solve() returns is non-empty, starts at start, ends
\* at end, stays inside the grid, and each two consecutive elements are
\* grid-adjacent and not separated by a wall of the maze.
C3_PathValid == (op = "solve" /\ ret.ok) => ValidPath(ret.val, maze)

\* solve() has returned a path of several steps through a maze with walls.
C3_Witness ==
    /\ op = "solve"
    /\ ret.ok
    /\ Len(ret.val) >= 4
    /\ Len(maze.walls) >= 2

\* The raw coordinates a caller may pass: the grid and two beyond it.
RawXs == 0..(WIDTH + 1)
RawYs == 0..(HEIGHT + 1)
RawWalls == {Wall_new(x, y, o) : x \in RawXs, y \in RawYs, o \in Orientation}

\* C4: whenever add_wall, add_interior_wall, remove_wall, move_start or
\* move_end returns an error, start, end and the wall collection (contents
\* and order) are what they were before the call.
C4_RejectionNonDestructive ==
    AtRest =>
        /\ \A wall \in RawWalls :
              LET r == add_wall(maze, wall) IN ~r.ret.ok => r.maze = maze
        /\ \A w \in InteriorWall :
              /\ LET r == add_interior_wall(maze, w) IN ~r.ret.ok => r.maze = maze
              /\ LET r == remove_wall(maze, w) IN ~r.ret.ok => r.maze = maze
        /\ \A p \in InteriorPosition :
              /\ LET r == move_start(maze, p) IN ~r.ret.ok => r.maze = maze
              /\ LET r == move_end(maze, p) IN ~r.ret.ok => r.maze = maze

\* add_wall has been refused for solvability on a maze that holds walls.
C4_Witness ==
    /\ op = "add_wall"
    /\ ret = Err(E_WALL_UNSOLVABLE)
    /\ Len(maze.walls) >= 2

\* C5: for a valid wall that is not in the wall set, add_wall succeeds
\* exactly when end is still reachable from start with the wall added; on
\* success the walls are the old ones plus that wall, otherwise the call
\* fails with the would-make-unsolvable error. On a 3x3 grid with start
\* (0,0) and end (2,2), adding Vertical(0,0) and Horizontal(0,1) succeeds
\* and adding Vertical(0,1) then fails.
C5_AddWallDecision ==
    /\ AtRest =>
          \A w \in InteriorWall :
              ~contains(maze.walls, w) =>
                  LET r == add_wall(maze, w)
                      reachable == Connected(maze.start, maze.end, Append(maze.walls, w))
                  IN  /\ r.ret.ok <=> reachable
                      /\ reachable => r.maze = [maze EXCEPT !.walls = Append(maze.walls, w)]
                      /\ ~reachable => r.ret = Err(E_WALL_UNSOLVABLE)
    /\ (WIDTH = 3 /\ HEIGHT = 3 /\ maze = WallMaze_new(At(0, 0), At(2, 2)).val) =>
          LET r1 == add_wall(maze, Wall_new(0, 0, Vertical))
              r2 == add_wall(r1.maze, Wall_new(0, 1, Horizontal))
              r3 == add_wall(r2.maze, Wall_new(0, 1, Vertical))
          IN  /\ r1.ret.ok
              /\ r2.ret.ok
              /\ r3.ret = Err(E_WALL_UNSOLVABLE)

\* The third add_wall of the 3x3 scenario has been refused.
C5_Witness ==
    /\ WIDTH = 3
    /\ HEIGHT = 3
    /\ op = "add_wall"
    /\ arg = Wall_new(0, 1, Vertical)
    /\ ret = Err(E_WALL_UNSOLVABLE)
    /\ maze = [start |-> At(0, 0), end |-> At(2, 2),
               walls |-> <<Wall_new(0, 0, Vertical), Wall_new(0, 1, Horizontal)>>]

\* C6: adding a wall that is in the wall set fails with the duplicate-wall
\* error and leaves the maze unchanged; if the wall is then removed and
\* immediately added again, the second add succeeds.
C6_DuplicateThenReAdd ==
    AtRest =>
        \A w \in InteriorWall :
            contains(maze.walls, w) =>
                LET dup     == add_wall(maze, w)
                    removed == remove_wall(dup.maze, w)
                    again   == add_wall(removed.maze, w)
                IN  /\ dup.ret = Err(E_WALL_EXISTS)
                    /\ dup.maze = maze
                    /\ removed.ret.ok
                    /\ again.ret.ok

\* The three entry points that take raw coordinates answer `wall` with
\* `expected`, and add_wall leaves the maze as it was.
Rejected(wall, expected) ==
    /\ ~expected.ok
    /\ InteriorWall_new(wall.x, wall.y, wall.orientation) = expected
    /\ InteriorWall_from_wall(wall) = expected
    /\ maze # NoMaze => add_wall(maze, wall) = [maze |-> maze, ret |-> expected]

OnEdge == {Err(E_X_ON_EDGE), Err(E_Y_ON_EDGE)}

\* C7 as stated: a Vertical wall at x = WIDTH-1, whatever its y, and a
\* Horizontal wall at y = HEIGHT-1, whatever its x, is rejected with the
\* on-the-edge error by InteriorWall::new, InteriorWall::from_wall and
\* add_wall, and add_wall leaves the maze unchanged.
C7_EdgeErrorForAnyCoordinate ==
    (/\ op = "add_wall"
     /\ \/ arg.orientation = Vertical /\ arg.x = WIDTH - 1
        \/ arg.orientation = Horizontal /\ arg.y = HEIGHT - 1) =>
        /\ ret \in OnEdge
        /\ InteriorWall_new(arg.x, arg.y, arg.orientation) = ret
        /\ InteriorWall_from_wall(arg) = ret

\* C7 (amended): a Vertical wall at x = WIDTH-1 is rejected with the
\* on-the-edge error when y < HEIGHT and with the y-out-of-bounds error
\* when y >= HEIGHT; a Horizontal wall at y = HEIGHT-1 is rejected with the
\* on-the-edge error when x < WIDTH and with the x-out-of-bounds error when
\* x >= WIDTH; in every case add_wall leaves the maze unchanged.
C7_BoundaryRejection ==
    /\ \A y \in RawYs :
          Rejected(Wall_new(WIDTH - 1, y, Vertical),
                   IF y < HEIGHT THEN Err(E_X_ON_EDGE) ELSE Err(E_Y_OUT_OF_BOUNDS))
    /\ \A x \in RawXs :
          Rejected(Wall_new(x, HEIGHT - 1, Horizontal),
                   IF x < WIDTH THEN Err(E_Y_ON_EDGE) ELSE Err(E_X_OUT_OF_BOUNDS))

\* add_wall has refused a wall on the right edge of a maze that holds walls.
C7_Witness ==
    /\ op = "add_wall"
    /\ arg = Wall_new(WIDTH - 1, 0, Vertical)
    /\ ret = Err(E_X_ON_EDGE)
    /\ Len(maze.walls) >= 1

\* C8: WallMaze::new(start, end) returns an error when start = end, and
\* otherwise a maze with that start, that end and no walls.
C8_NewContract ==
    /\ \A s \in InteriorPosition, e \in InteriorPosition :
          LET r == WallMaze_new(s, e)
          IN  IF s = e THEN ~r.ok
              ELSE r = Ok([start |-> s, end |-> e, walls |-> <<>>])
    /\ op = "new" =>
          IF arg.start = arg.end
          THEN ~ret.ok /\ maze = NoMaze
          ELSE ret.ok /\ maze = [start |-> arg.start, end |-> arg.end, walls |-> <<>>]

\* new has refused equal start and end.
C8_Witness ==
    /\ op = "new"
    /\ arg.start = arg.end
    /\ ret = Err(E_SAME_START_END)

\* C9: WallMaze::from_walls(start, end, walls) returns an error whenever
\* start = end, for every wall collection.
C9_FromWallsRejectsSameStartEnd ==
    (op = "from_walls" /\ arg.start = arg.end) => ~ret.ok

\* C10: from_walls with start # end succeeds exactly when end is reachable
\* from start under the given walls and fails with the not-solvable error
\* otherwise; on success the maze holds the given start, end and walls.
C10_FromWallsDecision ==
    (op = "from_walls" /\ arg.start # arg.end) =>
        IF Connected(arg.start, arg.end, arg.walls)
        THEN ret.ok /\ maze = [start |-> arg.start, end |-> arg.end, walls |-> arg.walls]
        ELSE ret = Err(E_NOT_SOLVABLE) /\ maze = NoMaze

\* from_walls has refused walls that cut end off from start.
C10_Witness ==
    /\ op = "from_walls"
    /\ arg.start # arg.end
    /\ ret = Err(E_NOT_SOLVABLE)

\* Number of occurrences of v in vec.
Occurrences(vec, v) == Cardinality({i \in 1..Len(vec) : vec[i] = v})

\* C11: remove_wall(w) fails with the wall-not-found error when w is not
\* in the wall set; otherwise it succeeds, w is no longer in the wall set
\* afterwards (the two cells it lay between are no longer separated), and
\* every other wall, start and end are unchanged.
C11_RemoveWall ==
    AtRest =>
        \A w \in InteriorWall :
            LET r == remove_wall(maze, w)
            IN  IF ~contains(maze.walls, w)
                THEN r = [maze |-> maze, ret |-> Err(E_WALL_NOT_FOUND)]
                ELSE /\ r.ret = Ok(Unit)
                     /\ ~contains(r.maze.walls, w)
                     /\ ~Walled(At(w.x, w.y),
                                IF w.orientation = Vertical THEN At(w.x + 1, w.y)
                                ELSE At(w.x, w.y + 1),
                                r.maze.walls)
                     /\ r.maze.start = maze.start
                     /\ r.maze.end = maze.end
                     /\ \A v \in InteriorWall \ {w} :
                           Occurrences(r.maze.walls, v) = Occurrences(maze.walls, v)

\* C12: in every reachable state of a maze no wall occurs more than once in
\* the wall collection.
C12_WallsUnique ==
    maze # NoMaze => \A w \in InteriorWall : Occurrences(maze.walls, w) <= 1

\* C13: move_start(p) with p equal to the current start succeeds as a
\* no-op; otherwise it succeeds exactly when a wall-respecting path exists
\* from p to the current start under the current walls, and then start
\* becomes p while end and the walls are unchanged; when there is no such
\* path it fails with the would-make-unsolvable error and start is
\* unchanged.
C13_MoveStartDecision ==
    AtRest =>
        \A p \in InteriorPosition :
            LET r == move_start(maze, p)
            IN  IF p = maze.start
                THEN r = [maze |-> maze, ret |-> Ok(Unit)]
                ELSE IF Connected(p, maze.start, maze.walls)
                THEN r = [maze |-> [maze EXCEPT !.start = p], ret |-> Ok(Unit)]
                ELSE r = [maze |-> maze, ret |-> Err(E_START_UNSOLVABLE)]

\* C14: move_end(p) succeeds exactly when move_start(p) succeeds on the
\* same maze after flip_start_end; on success end is p and start and the
\* walls are unchanged; on failure the maze is as it was and an error is
\* returned.
C14_MoveEndByFlip ==
    AtRest =>
        \A p \in InteriorPosition :
            LET r == move_end(maze, p)
                s == move_start(flip_start_end(maze), p)
            IN  /\ r.ret.ok <=> s.ret.ok
                /\ r.ret.ok => r.maze = [maze EXCEPT !.end = p]
                /\ ~r.ret.ok => r.maze = maze /\ r.ret = Err(E_END_UNSOLVABLE)

\* move_end has moved the end of a maze that holds walls to another cell.
C14_Witness ==
    /\ op = "move_end"
    /\ ret.ok
    /\ maze.end = arg
    /\ maze.start # arg
    /\ Len(maze.walls) >= 2

\* C15: flip_start_end exchanges start and end and leaves the walls
\* unchanged, a solve() after it returns a path from the old end to the old
\* start, and two consecutive flips restore the maze.
C15_FlipStartEnd ==
    AtRest =>
        LET flipped == flip_start_end(maze)
            path    == solve(flipped)
        IN  /\ flipped.start = maze.end
            /\ flipped.end = maze.start
            /\ flipped.walls = maze.walls
            /\ path.ok
            /\ path.val[1] = maze.end
            /\ path.val[Len(path.val)] = maze.start
            /\ flip_start_end(flipped) = maze

(***************************************************************************)
(* The methods of InteriorPosition and the constructors of InteriorWall on *)
(* their own: a caller holds a maze value, as from_walls builds it before  *)
(* validating it, and calls the methods with any arguments.                *)
(***************************************************************************)
MaxCallWalls == 1

CallMazes ==
    {[start |-> At(0, 0), end |-> At(WIDTH - 1, HEIGHT - 1), walls |-> SetToSeq(ws)] :
        ws \in {W \in SUBSET InteriorWall : Cardinality(W) <= MaxCallWalls}}

InitCalls ==
    /\ \E g \in Grids : WIDTH = g[1] /\ HEIGHT = g[2]
    /\ maze \in CallMazes
    /\ op = "none"
    /\ arg = NoArg
    /\ ret = Ok(Unit)
    /\ search = NoSearch
    /\ steps = 0

\* Calls a function that leaves the maze alone and returns r.
Call(name, a, r) ==
    /\ op' = name
    /\ arg' = a
    /\ ret' = r
    /\ UNCHANGED <<WIDTH, HEIGHT, maze, search, steps>>

PositionNew ==
    \E x \in RawXs, y \in RawYs :
        Call("InteriorPosition::new", [x |-> x, y |-> y], InteriorPosition_new(x, y))

InteriorWallNew ==
    \E wall \in RawWalls :
        Call("InteriorWall::new", wall, InteriorWall_new(wall.x, wall.y, wall.orientation))

InteriorWallFromWall ==
    \E wall \in RawWalls : Call("InteriorWall::from_wall", wall, InteriorWall_from_wall(wall))

InteriorWallFromPositionAndOrientation ==
    \E pos \in InteriorPosition, orientation \in Orientation :
        Call("InteriorWall::from_position_and_orientation",
             [pos |-> pos, orientation |-> orientation],
             InteriorWall_from_position_and_orientation(pos, orientation))

AdjacentPositions ==
    \E self \in InteriorPosition :
        Call("adjacent_positions", [self |-> self], adjacent_positions(self))

AdjacentTo ==
    \E self \in InteriorPosition, other \in InteriorPosition :
        Call("adjacent_to", [self |-> self, other |-> other], adjacent_to(self, other))

MinDistance ==
    \E self \in InteriorPosition, other \in InteriorPosition :
        Call("min_distance", [self |-> self, other |-> other], min_distance(self, other))

SeparatedByWall ==
    \E self \in InteriorPosition, other \in InteriorPosition :
        Call("separated_by_wall", [self |-> self, other |-> other],
             separated_by_wall(self, other, maze))

ShiftedBy ==
    \E self \in InteriorPosition, direction \in Direction :
        Call("shifted_by", [self |-> self, direction |-> direction],
             shifted_by(self, direction))

\* ret holds the position after the call next to the returned Result.
MoveBy ==
    \E self \in InteriorPosition, direction \in Direction :
        Call("move_by", [self |-> self, direction |-> direction], move_by(self, direction))

NextCalls ==
    \/ PositionNew
    \/ InteriorWallNew
    \/ InteriorWallFromWall
    \/ InteriorWallFromPositionAndOrientation
    \/ AdjacentPositions
    \/ AdjacentTo
    \/ MinDistance
    \/ SeparatedByWall
    \/ ShiftedBy
    \/ MoveBy

SpecCalls == InitCalls /\ [][NextCalls]_vars

\* C16: for every maze and every two grid-adjacent positions p and q,
\* p.separated_by_wall(q, maze) and q.separated_by_wall(p, maze) both return
\* Ok with the same boolean.
C16_SeparatedByWallSymmetric ==
    (op = "separated_by_wall" /\ GridAdjacent(arg.self, arg.other)) =>
        /\ ret.ok
        /\ ret.val \in BOOLEAN
        /\ separated_by_wall(arg.other, arg.self, maze) = ret

\* separated_by_wall has found a wall, asked from the cell of the larger x.
C16_Witness ==
    /\ op = "separated_by_wall"
    /\ arg.self.x > arg.other.x
    /\ ret = Ok(TRUE)

\* C17: separated_by_wall returns the not-adjacent error for two different
\* positions that are not adjacent, and for p = q the same-position error,
\* which is another error than the not-adjacent one; it returns no boolean
\* in either case.
C17_SeparatedByWallErrorKinds ==
    op = "separated_by_wall" =>
        /\ (arg.self # arg.other /\ ~GridAdjacent(arg.self, arg.other)) =>
              ret = Err(E_NOT_ADJACENT)
        /\ arg.self = arg.other =>
              ret = Err(E_SAME_POSITION) /\ ret # Err(E_NOT_ADJACENT)

\* The (x, y, orientation) of an interior wall of the grid.
ValidWall(x, y, orientation) ==
    /\ x < WIDTH
    /\ y < HEIGHT
    /\ ~(orientation = Vertical /\ x = WIDTH - 1)
    /\ ~(orientation = Horizontal /\ y = HEIGHT - 1)

\* C18: InteriorPosition::new(x, y) succeeds iff x < WIDTH and y < HEIGHT;
\* InteriorWall::new(x, y, o) succeeds iff x < WIDTH, y < HEIGHT, not
\* (o = Vertical and x = WIDTH-1) and not (o = Horizontal and y = HEIGHT-1);
\* InteriorWall::from_wall and from_position_and_orientation accept and
\* reject exactly the same (x, y, o) as InteriorWall::new.
C18_ValidatedConstructors ==
    /\ op = "InteriorPosition::new" =>
          /\ ret.ok <=> (arg.x < WIDTH /\ arg.y < HEIGHT)
          /\ ret.ok => ret.val = At(arg.x, arg.y)
    /\ op = "InteriorWall::new" =>
          /\ ret.ok <=> ValidWall(arg.x, arg.y, arg.orientation)
          /\ ret.ok => ret.val = Wall_new(arg.x, arg.y, arg.orientation)
    /\ op = "InteriorWall::from_wall" =>
          /\ ret.ok <=> InteriorWall_new(arg.x, arg.y, arg.orientation).ok
          /\ ret.ok <=> ValidWall(arg.x, arg.y, arg.orientation)
          /\ ret.ok => ret.val = arg
    /\ op = "InteriorWall::from_position_and_orientation" =>
          /\ ret.ok <=> InteriorWall_new(arg.pos.x, arg.pos.y, arg.orientation).ok
          /\ ret.ok <=> ValidWall(arg.pos.x, arg.pos.y, arg.orientation)
          /\ ret.ok => ret.val = Wall_new(arg.pos.x, arg.pos.y, arg.orientation)

\* InteriorWall::new has refused a wall on the right edge of a grid that
\* has interior walls.
C18_Witness ==
    /\ op = "InteriorWall::new"
    /\ WIDTH >= 2
    /\ arg.x = WIDTH - 1
    /\ arg.y < HEIGHT
    /\ arg.orientation = Vertical
    /\ ~ret.ok

\* The four candidates of adjacent_positions in their order, without those
\* outside the grid.
NeighboursInOrder(p) ==
    LET InGrid(q) == q \in InteriorPosition
    IN  SelectSeq(<<At(p.x - 1, p.y), At(p.x + 1, p.y), At(p.x, p.y - 1), At(p.x, p.y + 1)>>,
                  InGrid)

\* p does not lie on any edge of the grid.
InteriorCell(p) == p.x > 0 /\ p.x < WIDTH - 1 /\ p.y > 0 /\ p.y < HEIGHT - 1

\* p is a corner of the grid.
CornerCell(p) == p.x \in {0, WIDTH - 1} /\ p.y \in {0, HEIGHT - 1}

\* C19: adjacent_positions(p) returns, without repetition and in the order
\* x-1, x+1, y-1, y+1, exactly the positions of the grid that differ from p
\* by 1 in exactly one axis (4 for an interior cell, 2 for a corner of a
\* grid with WIDTH, HEIGHT >= 2); adjacent_to(p, q) is true exactly for
\* those q, so it is symmetric and never true for q = p.
C19_Adjacency ==
    /\ op = "adjacent_positions" =>
          /\ ret = NeighboursInOrder(arg.self)
          /\ \A i \in 1..Len(ret), j \in 1..Len(ret) : ret[i] = ret[j] => i = j
          /\ {ret[i] : i \in 1..Len(ret)} =
                {q \in InteriorPosition : GridAdjacent(arg.self, q)}
          /\ InteriorCell(arg.self) => Len(ret) = 4
          /\ (CornerCell(arg.self) /\ WIDTH >= 2 /\ HEIGHT >= 2) => Len(ret) = 2
    /\ op = "adjacent_to" =>
          /\ ret = (\E i \in 1..Len(NeighboursInOrder(arg.self)) :
                        NeighboursInOrder(arg.self)[i] = arg.other)
          /\ ret = GridAdjacent(arg.self, arg.other)
          /\ ret = adjacent_to(arg.other, arg.self)
          /\ arg.self = arg.other => ~ret

\* adjacent_positions has returned the four neighbours of an interior cell.
C19_Witness ==
    /\ op = "adjacent_positions"
    /\ InteriorCell(arg.self)
    /\ Len(ret) = 4

Abs(n) == IF n < 0 THEN -n ELSE n

\* C20: min_distance(p, q) is |p.x - q.x| + |p.y - q.y|, a value no
\* subtraction of which went below zero, is the same for (q, p), and is
\* zero exactly when p = q.
C20_MinDistance ==
    op = "min_distance" =>
        /\ ret = Abs(arg.self.x - arg.other.x) + Abs(arg.self.y - arg.other.y)
        /\ ret \in Nat
        /\ ret = min_distance(arg.other, arg.self)
        /\ ret = 0 <=> arg.self = arg.other

\* min_distance has been called with self left of and below other's row,
\* on positions that differ in both coordinates.
C20_Witness ==
    /\ op = "min_distance"
    /\ arg.self.x < arg.other.x
    /\ arg.self.y > arg.other.y
    /\ ret >= 3

\* The cell next to p in direction d, inside the grid or not.
Neighbour(p, d) ==
    CASE d = Up -> At(p.x, p.y - 1)
      [] d = Down -> At(p.x, p.y + 1)
      [] d = Left -> At(p.x - 1, p.y)
      [] d = Right -> At(p.x + 1, p.y)

\* C21: shifted_by(p, d) returns an error, never a clamped position,
\* exactly when the neighbour of p in direction d lies outside the grid;
\* otherwise it returns that neighbour, which is adjacent to p, and shifting
\* the result by d.opposite() returns p. move_by applies the same shift in
\* place and leaves the position unchanged when it returns an error.
C21_ShiftedBy ==
    /\ op = "shifted_by" =>
          LET n == Neighbour(arg.self, arg.direction)
          IN  IF n \in InteriorPosition
              THEN /\ ret = Ok(n)
                   /\ adjacent_to(arg.self, ret.val)
                   /\ shifted_by(ret.val, opposite(arg.direction)) = Ok(arg.self)
              ELSE ~ret.ok
    /\ op = "move_by" =>
          LET shifted == shifted_by(arg.self, arg.direction)
          IN  IF shifted.ok
              THEN ret = [self |-> shifted.val, ret |-> Ok(Unit)]
              ELSE ret = [self |-> arg.self, ret |-> shifted]

\* shifted_by has refused to leave the grid at its bottom.
C21_Witness ==
    /\ op = "shifted_by"
    /\ arg.direction = Down
    /\ arg.self.y = HEIGHT - 1
    /\ ret = Err(E_CANNOT_MOVE_DOWN)

(***************************************************************************)
(* solve() one loop iteration at a time. search holds its local variables  *)
(* (st: unchecked, path_to, and whether an unwrap has panicked) and, for   *)
(* the record, what the search has done so far: the positions popped       *)
(* (expanded), the positions pushed (pushed), and the frontier the last    *)
(* iteration chose from (frontier).                                        *)
(***************************************************************************)
\* Nothing has returned yet.
NoRet == [none |-> TRUE]

InitSearch ==
    /\ \E g \in Grids : WIDTH = g[1] /\ HEIGHT = g[2]
    /\ maze = NoMaze
    /\ op = "none"
    /\ arg = NoArg
    /\ ret = NoRet
    /\ search = NoSearch
    /\ steps = 0

\* A maze value is built from any start, end and walls, as from_walls
\* builds it before it calls solveable().
BuildMaze ==
    /\ maze = NoMaze
    /\ maze' \in SolveInputs
    /\ UNCHANGED <<WIDTH, HEIGHT, op, arg, ret, search, steps>>

\* Either exit of the loop is taken, or an unwrap has panicked.
LoopExits(m, st) ==
    \/ st.panicked
    \/ m.end \in DOMAIN st.path_to
    \/ st.unchecked = <<>>

\* The three statements before the loop.
SolveBegin ==
    /\ maze # NoMaze
    /\ search = NoSearch
    /\ steps' = 0
    /\ search' = [pc |-> "loop", st |-> solve_init(maze), expanded |-> <<>>,
                  pushed |-> <<maze.start>>, frontier |-> <<>>]
    /\ UNCHANGED <<WIDTH, HEIGHT, maze, op, arg, ret>>

\* One pass through the loop body.
SolveIterate ==
    /\ search.pc = "loop"
    /\ ~LoopExits(maze, search.st)
    /\ LET st     == search.st
           sorted == sort_by(st.unchecked, maze, st.path_to)
           after  == solve_iteration(maze, st)
       IN  search' = [pc |-> "loop",
                      st |-> after,
                      expanded |-> Append(search.expanded, sorted[Len(sorted)]),
                      pushed |-> search.pushed \o
                                 SubSeq(after.unchecked, Len(st.unchecked), Len(after.unchecked)),
                      frontier |-> st.unchecked]
    /\ steps' = steps + 1
    /\ UNCHANGED <<WIDTH, HEIGHT, maze, op, arg, ret>>

\* The loop is left and solve() returns (or has panicked).
SolveReturn ==
    /\ search.pc = "loop"
    /\ LoopExits(maze, search.st)
    /\ search' = [search EXCEPT !.pc = "done"]
    /\ op' = "solve"
    /\ arg' = NoArg
    /\ ret' = solve_loop(maze, search.st)
    /\ steps' = steps + 1
    /\ UNCHANGED <<WIDTH, HEIGHT, maze>>

NextSearch ==
    \/ BuildMaze
    \/ SolveBegin
    \/ SolveIterate
    \/ SolveReturn

\* A step of the loop: in the loop one of SolveIterate and SolveReturn is
\* possible, and both count a step.
LoopStep == search.pc = "loop" /\ steps' = steps + 1

\* solve() is sequential code that nothing suspends: while it is in its
\* loop, its next step is taken.
SpecSearch == InitSearch /\ [][NextSearch]_vars /\ WF_steps(LoopStep)

NoRepetition(seq) == \A i \in 1..Len(seq), j \in 1..Len(seq) : seq[i] = seq[j] => i = j

\* C22: solve() terminates for every maze; every position is pushed onto
\* the frontier and expanded at most once, so the loop runs at most
\* WIDTH x HEIGHT expansions.
C22_Termination ==
    /\ [](search.pc \in {"loop", "done"} =>
             /\ NoRepetition(search.pushed)
             /\ NoRepetition(search.expanded)
             /\ Len(search.pushed) <= WIDTH * HEIGHT
             /\ Len(search.expanded) <= WIDTH * HEIGHT)
    /\ (search.pc = "loop") ~> (search.pc = "done")

\* A search that found no path has ended after expanding several positions
\* of a maze with walls.
C22_Witness ==
    /\ search.pc = "done"
    /\ ret = Err(E_NO_PATH)
    /\ Len(search.expanded) >= 3
    /\ Len(maze.walls) >= 2

\* C23: for every start, end and wall set, mazes that violate the
\* solvability invariant included, solve() returns the no-path error
\* exactly when there is no wall-respecting path from start to end, and a
\* path otherwise.
C23_SearchComplete ==
    op = "solve" =>
        IF Connected(maze.start, maze.end, maze.walls)
        THEN ret.ok /\ ValidPath(ret.val, maze)
        ELSE ret = Err(E_NO_PATH)

\* solve() has reported that walls cut end off from start.
C23_Witness ==
    /\ op = "solve"
    /\ ret = Err(E_NO_PATH)
    /\ Len(maze.walls) >= 2
    /\ min_distance(maze.start, maze.end) >= 2

\* The wall that lies between the adjacent positions p and q.
WallBetween(p, q) ==
    IF p.x # q.x
    THEN Wall_new(IF p.x < q.x THEN p.x ELSE q.x, p.y, Vertical)
    ELSE Wall_new(p.x, IF p.y < q.y THEN p.y ELSE q.y, Horizontal)

\* C24: for adjacent p and q, separated_by_wall returns true exactly when
\* the wall set contains the Vertical wall at the position of the lesser x
\* (if the x coordinates differ) or the Horizontal wall at the position of
\* the lesser y (if the y coordinates differ), and false otherwise; no
\* other wall influences the result.
C24_WallPredicate ==
    (op = "separated_by_wall" /\ GridAdjacent(arg.self, arg.other)) =>
        LET between == WallBetween(arg.self, arg.other)
        IN  /\ ret = Ok(contains(maze.walls, between))
            /\ \A w \in InteriorWall \ {between} :
                  /\ separated_by_wall(arg.self, arg.other,
                                       [maze EXCEPT !.walls = Append(maze.walls, w)]) = ret
                  /\ separated_by_wall(arg.self, arg.other,
                                       [maze EXCEPT !.walls = SelectSeq(maze.walls,
                                                                 LAMBDA v : v # w)]) = ret

\* separated_by_wall has answered false for two cells of a maze whose wall
\* lies elsewhere.
C24_Witness ==
    /\ op = "separated_by_wall"
    /\ GridAdjacent(arg.self, arg.other)
    /\ Len(maze.walls) >= 1
    /\ ret = Ok(FALSE)

\* C25: at every point of the search, the path recorded in path_to for a
\* visited position is a shortest wall-respecting path from start to that
\* position.
C25_FirstDiscoveryShortest ==
    search.pc \in {"loop", "done"} =>
        \A p \in DOMAIN search.st.path_to :
            LET path == search.st.path_to[p]
            IN  /\ ValidPath(path, [maze EXCEPT !.end = p])
                /\ Len(path) - 1 = StepsFrom({maze.start}, {maze.start}, 0, p, maze.walls)

\* C26: in every iteration of solve() the position taken from the frontier
\* by sorting in descending order of value and popping the last element is
\* a frontier member whose value, min_distance to end plus the length of
\* its recorded path, is the least among the frontier members.
C26_FrontierSelection ==
    (search.pc \in {"loop", "done"} /\ search.expanded # <<>>) =>
        LET next     == search.expanded[Len(search.expanded)]
            frontier == search.frontier
        IN  /\ \E i \in 1..Len(frontier) : frontier[i] = next
            /\ \A i \in 1..Len(frontier) :
                  value(next, maze, search.st.path_to)
                      <= value(frontier[i], maze, search.st.path_to)

\* An iteration has chosen from a frontier that held a position of greater
\* value than the chosen one.
C26_Witness ==
    /\ search.pc = "loop"
    /\ search.expanded # <<>>
    /\ Len(search.frontier) >= 3
    /\ \E i \in 1..Len(search.frontier) :
          value(search.frontier[i], maze, search.st.path_to)
              > value(search.expanded[Len(search.expanded)], maze, search.st.path_to)

\* The orders in which the elements of vec can be arranged.
Reorderings(vec) ==
    LET n == Len(vec)
    IN  {[i \in 1..n |-> vec[f[i]]] :
            f \in {g \in [1..n -> 1..n] : \A i \in 1..n, j \in 1..n : g[i] = g[j] => i = j}}

\* The walls of vec, each once, in some order.
WallSet(vec) == SetToSeq({vec[i] : i \in 1..Len(vec)})

\* C27: the result of solve() and the accept/reject outcome of every
\* mutating operation depend on start, end, the set of walls and the
\* requested operation only: a maze with the same start, end and walls held
\* in another order gives the same path and the same outcomes.
C27_OrderIndependence ==
    AtRest =>
        \A walls \in Reorderings(maze.walls) \cup {WallSet(maze.walls)} :
            LET other == [maze EXCEPT !.walls = walls]
            IN  /\ solve(other) = solve(maze)
                /\ \A wall \in RawWalls : add_wall(other, wall).ret = add_wall(maze, wall).ret
                /\ \A w \in InteriorWall :
                      /\ add_interior_wall(other, w).ret = add_interior_wall(maze, w).ret
                      /\ remove_wall(other, w).ret = remove_wall(maze, w).ret
                /\ \A p \in InteriorPosition :
                      /\ move_start(other, p).ret = move_start(maze, p).ret
                      /\ move_end(other, p).ret = move_end(maze, p).ret

\* solve() has found a path of several steps through a maze that holds
\* different walls.
C27_Witness ==
    /\ AtRest
    /\ ret.ok
    /\ Len(ret.val) >= 4
    /\ Cardinality({maze.walls[i] : i \in 1..Len(maze.walls)}) >= 2

\* C28: when every public operation runs atomically, one at a time, no
\* state is reachable in which end cannot be reached from start.
C28_AtomicOperationsKeepEndReachable ==
    maze # NoMaze => Connected(maze.start, maze.end, maze.walls)

\* C29: every operation on a maze whose start differs from its end leaves
\* start different from end, move_start(p) with p the current end and
\* move_end(p) with p the current start included.
C29_DistinctEndpointsPreserved ==
    (AtRest /\ maze.start # maze.end) =>
        /\ \A wall \in RawWalls :
              LET m == add_wall(maze, wall).maze IN m.start # m.end
        /\ \A w \in InteriorWall :
              LET m == remove_wall(maze, w).maze IN m.start # m.end
        /\ LET m == flip_start_end(maze) IN m.start # m.end
        /\ \A p \in InteriorPosition :
              /\ LET m == move_start(maze, p).maze IN m.start # m.end
              /\ LET m == move_end(maze, p).maze IN m.start # m.end

\* C30: solve() never panics: in every maze state each separated_by_wall
\* call of the search returns Ok (the pair is adjacent and the wall between
\* them is a valid interior wall), every frontier member and every expanded
\* position has an entry in path_to, and no position is pushed onto the
\* frontier twice.
C30_SolveNeverPanics ==
    search.pc \in {"loop", "done"} =>
        /\ ~search.st.panicked
        /\ \A i \in 1..Len(search.st.unchecked) :
              search.st.unchecked[i] \in DOMAIN search.st.path_to
        /\ \A i \in 1..Len(search.expanded) :
              LET next      == search.expanded[i]
                  adjacents == adjacent_positions(next)
              IN  /\ next \in DOMAIN search.st.path_to
                  /\ \A k \in 1..Len(adjacents) :
                        /\ adjacent_to(adjacents[k], next)
                        /\ separated_by_wall(adjacents[k], next, maze).ok
        /\ NoRepetition(search.pushed)
        /\ search.pc = "done" => ret # Panic

\* A search has returned a path after expanding, among others, a position
\* on the last row or column of a maze with walls.
C30_Witness ==
    /\ search.pc = "done"
    /\ ret.ok
    /\ Len(maze.walls) >= 2
    /\ Len(search.expanded) >= 4
    /\ \E i \in 1..Len(search.expanded) :
          \/ search.expanded[i].x = WIDTH - 1
          \/ search.expanded[i].y = HEIGHT - 1

\* C31: the path returned by solve() is simple: no position occurs in it
\* more than once, so it has at most WIDTH x HEIGHT positions; when start
\* equals end it is the one-element sequence <<start>>.
C31_PathSimple ==
    (op = "solve" /\ ret.ok) =>
        /\ NoRepetition(ret.val)
        /\ Len(ret.val) <= WIDTH * HEIGHT
        /\ maze.start = maze.end => ret.val = <<maze.start>>

\* solve() has returned a path that winds around walls, longer than the
\* distance between its ends.
C31_Witness ==
    /\ op = "solve"
    /\ ret.ok
    /\ Len(maze.walls) >= 2
    /\ Len(ret.val) >= 5
    /\ Len(ret.val) - 1 > min_distance(maze.start, maze.end)

\* C32: in every reachable maze state a successful add_wall(w), or
\* add_interior_wall(w), immediately followed by remove_wall(w) succeeds
\* and gives back exactly the maze before the add: the same start, the same
\* end and the same walls in the same order.
C32_AddRemoveRoundTrip ==
    AtRest =>
        /\ \A wall \in RawWalls :
              LET added == add_wall(maze, wall)
              IN  added.ret.ok =>
                      remove_wall(added.maze, InteriorWall_from_wall(wall).val)
                          = [maze |-> maze, ret |-> Ok(Unit)]
        /\ \A w \in InteriorWall :
              LET added == add_interior_wall(maze, w)
              IN  added.ret.ok =>
                      remove_wall(added.maze, w) = [maze |-> maze, ret |-> Ok(Unit)]

\* A maze that already holds walls accepts one more.
C32_Witness ==
    /\ AtRest
    /\ Len(maze.walls) >= 2
    /\ \E wall \in RawWalls :
          LET added == add_wall(maze, wall)
          IN  added.ret.ok /\ Len(added.maze.walls) = Len(maze.walls) + 1

====
